---- MODULE Spec2Model ----
(***************************************************************************)
(* A model of llm_demo.py: main(), check_api_key(), send_to_openai() and   *)
(* send_to_anthropic(), with the server-sent-event decode loop, the JSON   *)
(* parsing and printing it relies on, and the HTTP response it reads.      *)
(***************************************************************************)
EXTENDS Integers, Sequences, FiniteSets, TLC

(***************************************************************************)
(* Python values.  A value is a record [t, v]: t is the Python type name   *)
(* and v the payload (a string, an integer, a boolean, a sequence of       *)
(* values for a list, a sequence of [k, x] pairs in insertion order for a  *)
(* dict).                                                                  *)
(***************************************************************************)
PyStr(s) == [t |-> "str", v |-> s]
PyInt(n) == [t |-> "int", v |-> n]
PyBool(b) == [t |-> "bool", v |-> b]
PyNone == [t |-> "NoneType", v |-> 0]
PyList(xs) == [t |-> "list", v |-> xs]
PyDict(kvs) == [t |-> "dict", v |-> kvs]
EmptyDict == PyDict(<< >>)

\* The outcome of an expression: a value, or the exception it raises.
Ok(x) == [exc |-> "", val |-> x]
Raise(e) == [exc |-> e, val |-> PyNone]

(***************************************************************************)
(* Strings.                                                                *)
(***************************************************************************)
CharAt(s, i) == IF i >= 1 /\ i <= Len(s) THEN SubSeq(s, i, i) ELSE ""

\* The characters i..j of s (1-based), clipped to the string as a Python
\* slice is.
Slice(s, i, j) ==
  LET hi == IF j > Len(s) THEN Len(s) ELSE j IN
  IF i < 1 \/ i > hi THEN "" ELSE SubSeq(s, i, hi)

\* str.startswith
startswith(s, prefix) == Slice(s, 1, Len(prefix)) = prefix

\* Python's substring test `needle in hay` for two str.
RECURSIVE FindSub(_, _, _)
FindSub(hay, needle, i) ==
  IF i + Len(needle) - 1 > Len(hay) THEN FALSE
  ELSE IF Slice(hay, i, i + Len(needle) - 1) = needle THEN TRUE
  ELSE FindSub(hay, needle, i + 1)

Digits == <<"0", "1", "2", "3", "4", "5", "6", "7", "8", "9">>
IsDigit(c) == \E d \in 1..10 : Digits[d] = c
DigitVal(c) == (CHOOSE d \in 1..10 : Digits[d] = c) - 1

RECURSIVE NatToStr(_)
NatToStr(n) ==
  IF n < 10 THEN Digits[n + 1] ELSE NatToStr(n \div 10) \o Digits[(n % 10) + 1]
IntToStr(n) == IF n < 0 THEN "-" \o NatToStr(0 - n) ELSE NatToStr(n)

(***************************************************************************)
(* json.loads: a recursive-descent parser of the JSON grammar over         *)
(* objects, arrays, strings (with the escapes \" and \\), integers and the *)
(* literals true, false and null.  A parse step returns [ok, val, pos]:    *)
(* pos is the index after what was read.  A failure is JSONDecodeError.    *)
(***************************************************************************)
PFail == [ok |-> FALSE, val |-> PyNone, pos |-> 0]
PDone(x, p) == [ok |-> TRUE, val |-> x, pos |-> p]

IsWs(c) == c = " " \/ c = "\t" \/ c = "\n"
RECURSIVE SkipWs(_, _)
SkipWs(s, i) == IF IsWs(CharAt(s, i)) THEN SkipWs(s, i + 1) ELSE i

\* The characters of a string literal from index i (after the opening
\* quote) to the closing quote.
RECURSIVE ScanString(_, _, _)
ScanString(s, i, acc) ==
  LET c == CharAt(s, i) IN
  IF c = "" THEN PFail
  ELSE IF c = "\"" THEN PDone(acc, i + 1)
  ELSE IF c = "\\" THEN
    LET e == CharAt(s, i + 1) IN
    IF e = "\"" \/ e = "\\" THEN ScanString(s, i + 2, acc \o e) ELSE PFail
  ELSE IF c = "\n" \/ c = "\t" THEN PFail
  ELSE ScanString(s, i + 1, acc \o c)

RECURSIVE ScanDigits(_, _, _)
ScanDigits(s, i, n) ==
  IF IsDigit(CharAt(s, i)) THEN ScanDigits(s, i + 1, 10 * n + DigitVal(CharAt(s, i)))
  ELSE PDone(n, i)

ScanNumber(s, i) ==
  LET neg == CharAt(s, i) = "-"
      j == IF neg THEN i + 1 ELSE i
      c == CharAt(s, j)
      r == IF c = "0" THEN PDone(0, j + 1) ELSE ScanDigits(s, j, 0)
  IN IF ~IsDigit(c) THEN PFail
     ELSE PDone(PyInt(IF neg THEN 0 - r.val ELSE r.val), r.pos)

\* dict[key] = value: a repeated key keeps its place and takes the new value.
DictSet(kvs, key, x) ==
  IF \E n \in 1..Len(kvs) : kvs[n].k = key
  THEN [n \in 1..Len(kvs) |-> IF kvs[n].k = key THEN [k |-> key, x |-> x] ELSE kvs[n]]
  ELSE Append(kvs, [k |-> key, x |-> x])

RECURSIVE ScanValue(_, _), ScanMembers(_, _, _), ScanElements(_, _, _)
ScanValue(s, i) ==
  LET c == CharAt(s, i) IN
  IF c = "\"" THEN
    LET r == ScanString(s, i + 1, "") IN
    IF r.ok THEN PDone(PyStr(r.val), r.pos) ELSE PFail
  ELSE IF c = "{" THEN
    LET j == SkipWs(s, i + 1) IN
    IF CharAt(s, j) = "}" THEN PDone(EmptyDict, j + 1)
    ELSE ScanMembers(s, j, << >>)
  ELSE IF c = "[" THEN
    LET j == SkipWs(s, i + 1) IN
    IF CharAt(s, j) = "]" THEN PDone(PyList(<< >>), j + 1)
    ELSE ScanElements(s, j, << >>)
  ELSE IF Slice(s, i, i + 3) = "null" THEN PDone(PyNone, i + 4)
  ELSE IF Slice(s, i, i + 3) = "true" THEN PDone(PyBool(TRUE), i + 4)
  ELSE IF Slice(s, i, i + 4) = "false" THEN PDone(PyBool(FALSE), i + 5)
  ELSE ScanNumber(s, i)

\* "key" : value pairs from index i (at the opening quote of a key).
ScanMembers(s, i, kvs) ==
  IF CharAt(s, i) # "\"" THEN PFail
  ELSE
    LET key == ScanString(s, i + 1, "") IN
    IF ~key.ok THEN PFail
    ELSE
      LET j == SkipWs(s, key.pos) IN
      IF CharAt(s, j) # ":" THEN PFail
      ELSE
        LET x == ScanValue(s, SkipWs(s, j + 1)) IN
        IF ~x.ok THEN PFail
        ELSE
          LET m == SkipWs(s, x.pos)
              kvs2 == DictSet(kvs, key.val, x.val)
          IN IF CharAt(s, m) = "}" THEN PDone(PyDict(kvs2), m + 1)
             ELSE IF CharAt(s, m) = "," THEN ScanMembers(s, SkipWs(s, m + 1), kvs2)
             ELSE PFail

ScanElements(s, i, xs) ==
  LET x == ScanValue(s, i) IN
  IF ~x.ok THEN PFail
  ELSE
    LET m == SkipWs(s, x.pos)
        xs2 == Append(xs, x.val)
    IN IF CharAt(s, m) = "]" THEN PDone(PyList(xs2), m + 1)
       ELSE IF CharAt(s, m) = "," THEN ScanElements(s, SkipWs(s, m + 1), xs2)
       ELSE PFail

json_loads(s) ==
  LET r == ScanValue(s, SkipWs(s, 1)) IN
  IF r.ok /\ SkipWs(s, r.pos) = Len(s) + 1 THEN Ok(r.val)
  ELSE Raise("JSONDecodeError")

(***************************************************************************)
(* json.dumps(data, indent=2).                                             *)
(***************************************************************************)
RECURSIVE Spaces(_)
Spaces(n) == IF n <= 0 THEN "" ELSE " " \o Spaces(n - 1)

RECURSIVE EscapeFrom(_, _)
EscapeFrom(s, i) ==
  IF i > Len(s) THEN ""
  ELSE LET c == CharAt(s, i) IN
       (IF c = "\"" \/ c = "\\" THEN "\\" \o c ELSE c) \o EscapeFrom(s, i + 1)

IndentWidth == 2

RECURSIVE Dump(_, _), DumpItems(_, _, _), DumpPairs(_, _, _)
Dump(x, level) ==
  IF x.t = "str" THEN "\"" \o EscapeFrom(x.v, 1) \o "\""
  ELSE IF x.t = "int" THEN IntToStr(x.v)
  ELSE IF x.t = "bool" THEN (IF x.v THEN "true" ELSE "false")
  ELSE IF x.t = "NoneType" THEN "null"
  ELSE IF x.t = "list" THEN
    IF Len(x.v) = 0 THEN "[]"
    ELSE "[\n" \o DumpItems(x.v, 1, level + 1) \o "\n" \o Spaces(IndentWidth * level) \o "]"
  ELSE
    IF Len(x.v) = 0 THEN "{}"
    ELSE "{\n" \o DumpPairs(x.v, 1, level + 1) \o "\n" \o Spaces(IndentWidth * level) \o "}"

DumpItems(xs, n, level) ==
  Spaces(IndentWidth * level) \o Dump(xs[n], level)
    \o (IF n < Len(xs) THEN ",\n" \o DumpItems(xs, n + 1, level) ELSE "")

DumpPairs(kvs, n, level) ==
  Spaces(IndentWidth * level) \o "\"" \o EscapeFrom(kvs[n].k, 1) \o "\": "
    \o Dump(kvs[n].x, level)
    \o (IF n < Len(kvs) THEN ",\n" \o DumpPairs(kvs, n + 1, level) ELSE "")

json_dumps(x) == Dump(x, 0)

(***************************************************************************)
(* The Python operations the decode loops apply to a parsed payload, with  *)
(* the exception each raises on a value of the wrong type.                 *)
(***************************************************************************)
HasKey(kvs, key) == \E n \in 1..Len(kvs) : kvs[n].k = key
Lookup(kvs, key) == kvs[CHOOSE n \in 1..Len(kvs) : kvs[n].k = key].x

\* key in x
py_in(key, x) ==
  IF x.t = "dict" THEN Ok(HasKey(x.v, key))
  ELSE IF x.t = "list" THEN Ok(\E n \in 1..Len(x.v) : x.v[n].t = "str" /\ x.v[n].v = key)
  ELSE IF x.t = "str" THEN Ok(FindSub(x.v, key, 1))
  ELSE Raise("TypeError")

\* x[key] for a str key
py_getitem(x, key) ==
  IF x.t = "dict" THEN (IF HasKey(x.v, key) THEN Ok(Lookup(x.v, key)) ELSE Raise("KeyError"))
  ELSE Raise("TypeError")

\* x[0]
py_first(x) ==
  IF x.t = "list" THEN (IF Len(x.v) > 0 THEN Ok(x.v[1]) ELSE Raise("IndexError"))
  ELSE IF x.t = "str" THEN (IF Len(x.v) > 0 THEN Ok(PyStr(CharAt(x.v, 1))) ELSE Raise("IndexError"))
  ELSE IF x.t = "dict" THEN Raise("KeyError")
  ELSE Raise("TypeError")

\* len(x)
py_len(x) ==
  IF x.t \in {"list", "dict", "str"} THEN Ok(Len(x.v)) ELSE Raise("TypeError")

\* x.get(key, default)
py_get(x, key, default) ==
  IF x.t = "dict" THEN Ok(IF HasKey(x.v, key) THEN Lookup(x.v, key) ELSE default)
  ELSE Raise("AttributeError")

\* bool(x)
py_truthy(x) ==
  IF x.t = "bool" THEN x.v
  ELSE IF x.t = "int" THEN x.v # 0
  ELSE IF x.t = "NoneType" THEN FALSE
  ELSE Len(x.v) > 0

\* "".join(xs)
RECURSIVE JoinFrom(_, _)
JoinFrom(xs, n) == IF n > Len(xs) THEN "" ELSE xs[n].v \o JoinFrom(xs, n + 1)
str_join(xs) ==
  IF \A n \in 1..Len(xs) : xs[n].t = "str" THEN Ok(PyStr(JoinFrom(xs, 1)))
  ELSE Raise("TypeError")

(***************************************************************************)
(* Text extraction.  The result is [exc, frags]: the exception raised, if  *)
(* any, and the values appended to accumulated_text (none or one).         *)
(***************************************************************************)
NoText == [exc |-> "", frags |-> << >>]
Abort(e) == [exc |-> e, frags |-> << >>]
Text(x) == [exc |-> "", frags |-> <<x>>]

\* if "choices" in data and len(data["choices"]) > 0:
\*     delta = data["choices"][0].get("delta", {})
\*     if "content" in delta and delta["content"]:
\*         accumulated_text.append(delta["content"])
extract_openai(data) ==
  LET has == py_in("choices", data) IN
  IF has.exc # "" THEN Abort(has.exc)
  ELSE IF ~has.val THEN NoText
  ELSE
    LET choices == py_getitem(data, "choices") IN
    IF choices.exc # "" THEN Abort(choices.exc)
    ELSE
      LET n == py_len(choices.val) IN
      IF n.exc # "" THEN Abort(n.exc)
      ELSE IF ~(n.val > 0) THEN NoText
      ELSE
        LET first == py_first(choices.val) IN
        IF first.exc # "" THEN Abort(first.exc)
        ELSE
          LET delta == py_get(first.val, "delta", EmptyDict) IN
          IF delta.exc # "" THEN Abort(delta.exc)
          ELSE
            LET hasc == py_in("content", delta.val) IN
            IF hasc.exc # "" THEN Abort(hasc.exc)
            ELSE IF ~hasc.val THEN NoText
            ELSE
              LET content == py_getitem(delta.val, "content") IN
              IF content.exc # "" THEN Abort(content.exc)
              ELSE IF py_truthy(content.val) THEN Text(content.val)
              ELSE NoText

\* extract_anthropic without the test of delta.type.
extract_anthropic_any_delta(data) ==
  LET type == py_get(data, "type", PyNone) IN
  IF type.exc # "" THEN Abort(type.exc)
  ELSE IF ~(type.val.t = "str" /\ type.val.v = "content_block_delta") THEN NoText
  ELSE
    LET delta == py_get(data, "delta", EmptyDict) IN
    IF delta.exc # "" THEN Abort(delta.exc)
    ELSE
      LET text == py_get(delta.val, "text", PyStr("")) IN
      IF text.exc # "" THEN Abort(text.exc)
      ELSE IF py_truthy(text.val) THEN Text(text.val)
      ELSE NoText

\* if data.get("type") == "content_block_delta":
\*     delta = data.get("delta", {})
\*     if delta.get("type") == "text_delta":
\*         text = delta.get("text", "")
\*         if text:
\*             accumulated_text.append(text)
extract_anthropic(data) ==
  LET type == py_get(data, "type", PyNone) IN
  IF type.exc # "" THEN Abort(type.exc)
  ELSE IF ~(type.val.t = "str" /\ type.val.v = "content_block_delta") THEN NoText
  ELSE
    LET delta == py_get(data, "delta", EmptyDict) IN
    IF delta.exc # "" THEN Abort(delta.exc)
    ELSE
      LET dtype == py_get(delta.val, "type", PyNone) IN
      IF dtype.exc # "" THEN Abort(dtype.exc)
      ELSE IF ~(dtype.val.t = "str" /\ dtype.val.v = "text_delta") THEN NoText
      ELSE
        LET text == py_get(delta.val, "text", PyStr("")) IN
        IF text.exc # "" THEN Abort(text.exc)
        ELSE IF py_truthy(text.val) THEN Text(text.val)
        ELSE NoText

(***************************************************************************)
(* One line of response.iter_lines().  A line is a byte string; its bytes  *)
(* are written as the ASCII characters they encode, and InvalidByte stands *)
(* for a byte that is no part of a well-formed UTF-8 sequence (0xFF).      *)
(***************************************************************************)
InvalidByte == "~"

\* line.decode("utf-8")
decode(line) ==
  IF FindSub(line, InvalidByte, 1) THEN Raise("UnicodeDecodeError") ELSE Ok(line)

DataPrefix == "data: "
PrefixLen == 6
DoneSentinel == "[DONE]"

\* What is printed: one record per print of the program, kind naming the
\* print statement and text what it shows.
Out(kind, text) == [kind |-> kind, text |-> text]

\* The effect of one loop iteration: the exception that leaves the loop
\* uncaught (if any), whether the loop is left by break, what is printed and
\* what is appended to accumulated_text.
Step(exc, brk, out, frags) == [exc |-> exc, brk |-> brk, out |-> out, frags |-> frags]
Skip == Step("", FALSE, << >>, << >>)

\* data_payload with the slice one character early: line[5:].
data_payload_short(text) ==
  IF startswith(text, DataPrefix)
  THEN [data |-> TRUE, str |-> Slice(text, PrefixLen, Len(text))]
  ELSE [data |-> FALSE, str |-> ""]

\* data_payload with the space of the prefix optional: "data:" and line[5:].
data_payload_lax(text) ==
  IF startswith(text, "data:")
  THEN [data |-> TRUE, str |-> Slice(text, PrefixLen, Len(text))]
  ELSE [data |-> FALSE, str |-> ""]

\* if line.startswith("data: "): data_str = line[6:]
\* [data, str]: whether the line is a data line, and its payload.
data_payload(text) ==
  IF startswith(text, DataPrefix)
  THEN [data |-> TRUE, str |-> Slice(text, PrefixLen + 1, Len(text))]
  ELSE [data |-> FALSE, str |-> ""]

\* The loop body without the except clause: the JSONDecodeError propagates.
on_json_error_raise == Step("JSONDecodeError", FALSE, << >>, << >>)

\* except json.JSONDecodeError: pass
on_json_error == Skip

\* The body of the for loop of send_to_openai.
handle_line_openai(line) ==
  IF line = "" THEN Skip
  ELSE
    LET text == decode(line) IN
    IF text.exc # "" THEN Step(text.exc, FALSE, << >>, << >>)
    ELSE
      LET payload == data_payload(text.val) IN
      IF ~payload.data THEN Skip
      ELSE IF payload.str = DoneSentinel
        THEN Step("", TRUE, <<Out("done", "data: [DONE]")>>, << >>)
      ELSE
        LET data == json_loads(payload.str) IN
        IF data.exc # "" THEN on_json_error
        ELSE
          LET x == extract_openai(data.val) IN
          Step(x.exc, FALSE, <<Out("event", json_dumps(data.val))>>, x.frags)

\* The loop body of send_to_anthropic with the [DONE] test of
\* send_to_openai added: the sentinel is printed and ends the loop.
handle_line_anthropic_done_breaks(line) ==
  IF line = "" THEN Skip
  ELSE
    LET text == decode(line) IN
    IF text.exc # "" THEN Step(text.exc, FALSE, << >>, << >>)
    ELSE
      LET payload == data_payload(text.val) IN
      IF ~payload.data THEN Skip
      ELSE IF payload.str = DoneSentinel
        THEN Step("", TRUE, <<Out("done", "data: [DONE]")>>, << >>)
      ELSE
        LET data == json_loads(payload.str) IN
        IF data.exc # "" THEN on_json_error
        ELSE
          LET x == extract_anthropic(data.val) IN
          Step(x.exc, FALSE, <<Out("event", json_dumps(data.val))>>, x.frags)

\* The loop body of send_to_anthropic with the print moved after the
\* extraction, into `if text:`: only an event that adds text is printed.
handle_line_anthropic_print_text_only(line) ==
  IF line = "" THEN Skip
  ELSE
    LET text == decode(line) IN
    IF text.exc # "" THEN Step(text.exc, FALSE, << >>, << >>)
    ELSE
      LET payload == data_payload(text.val) IN
      IF ~payload.data THEN Skip
      ELSE
        LET data == json_loads(payload.str) IN
        IF data.exc # "" THEN on_json_error
        ELSE
          LET x == extract_anthropic(data.val) IN
          Step(x.exc, FALSE,
               IF x.frags # << >> THEN <<Out("event", json_dumps(data.val))>> ELSE << >>,
               x.frags)

\* The body of the for loop of send_to_anthropic.
handle_line_anthropic(line) ==
  IF line = "" THEN Skip
  ELSE
    LET text == decode(line) IN
    IF text.exc # "" THEN Step(text.exc, FALSE, << >>, << >>)
    ELSE
      LET payload == data_payload(text.val) IN
      IF ~payload.data THEN Skip
      ELSE
        LET data == json_loads(payload.str) IN
        IF data.exc # "" THEN on_json_error
        ELSE
          LET x == extract_anthropic(data.val) IN
          Step(x.exc, FALSE, <<Out("event", json_dumps(data.val))>>, x.frags)

\* accumulated_text.insert(0, x) in place of append.
append_front(acc, frags) == frags \o acc

\* accumulated_text.append(x), for each value the iteration appends
append(acc, frags) == acc \o frags

handle_line(p, line) ==
  IF p = "openai" THEN handle_line_openai(line) ELSE handle_line_anthropic(line)

(***************************************************************************)
(* The lines a server may send.  Each entry is a line with what the server *)
(* meant by it: shape names the class of the line, and for an event etype  *)
(* is its type, dtype its delta.type and text its delta.content (OpenAI)   *)
(* or delta.text (Anthropic).                                              *)
(***************************************************************************)
Sent(line, shape, etype, dtype, text) ==
  [line |-> line, shape |-> shape, etype |-> etype, dtype |-> dtype, text |-> text]

\* data: {"choices":[{"delta":{"content":"<content>"}}]}
OpenAIEvent(content) ==
  Sent("data: {\"choices\":[{\"delta\":{\"content\":\"" \o content \o "\"}}]}",
       "openai", "", "", content)

\* data: {"type":"<etype>","delta":{"type":"<dtype>","text":"<text>"}}
AnthropicEvent(etype, dtype, text) ==
  Sent("data: {\"type\":\"" \o etype \o "\",\"delta\":{\"type\":\"" \o dtype
         \o "\",\"text\":\"" \o text \o "\"}}",
       "anthropic", etype, dtype, text)

Catalogue ==
  << OpenAIEvent("Hi"),
     OpenAIEvent(" there"),
     OpenAIEvent(""),
     Sent("data: {\"choices\":[{\"delta\":{\"role\":\"assistant\"}}]}", "openai", "", "", ""),
     Sent("data: {\"id\":\"c1\",\"choices\":[]}", "openai", "", "", ""),
     Sent("data: [DONE]", "done", "", "", ""),
     AnthropicEvent("content_block_delta", "text_delta", "Hello"),
     AnthropicEvent("content_block_delta", "text_delta", "!"),
     AnthropicEvent("content_block_delta", "input_json_delta", "no"),
     AnthropicEvent("message_delta", "text_delta", "no"),
     Sent("data: {\"type\":\"message_start\"}", "anthropic", "message_start", "", ""),
     Sent("", "blank", "", "", ""),
     Sent("event: content_block_delta", "nondata", "", "", ""),
     Sent(": ping", "nondata", "", "", ""),
     Sent("data:{\"choices\":[{\"delta\":{\"content\":\"X\"}}]}", "nondata", "", "", ""),
     Sent("data:{\"type\":\"content_block_delta\",\"delta\":{\"type\":\"text_delta\",\"text\":\"X\"}}",
          "nondata", "", "", ""),
     Sent("data: {\"choices\":[{\"delta\":{\"content\":\"Hi\"", "malformed", "", "", ""),
     Sent("data: {\"type\":\"content_block_delta\",\"delta\":{\"type\":\"text_delta\",\"text\":\"Hel",
          "malformed", "", "", ""),
     Sent("data: 5", "illshaped", "", "", ""),
     Sent("data: \"text\"", "illshaped", "", "", ""),
     Sent("data: [1]", "illshaped", "", "", ""),
     Sent("data: {\"choices\":[null]}", "illshaped", "", "", ""),
     Sent("data: {\"choices\":[{\"delta\":null}]}", "illshaped", "", "", ""),
     Sent("data: {\"type\":\"content_block_delta\",\"delta\":null}", "illshaped", "", "", ""),
     Sent("data: {\"choices\":[{\"delta\":{\"content\":5}}]}", "illshaped", "", "", ""),
     Sent("data: {\"type\":\"content_block_delta\",\"delta\":{\"type\":\"text_delta\",\"text\":5}}",
          "illshaped", "", "", ""),
     Sent("data: " \o InvalidByte, "invalid_utf8", "", "", "") >>

\* The most lines one response delivers.
MaxLines == 3

Providers == {"openai", "anthropic"}

\* os.getenv: None when the variable is unset, the value otherwise.
NoKey == "None"
ApiKeys == {NoKey, "", "sk-test"}

\* The HTTP responses a server may give: the status line, and the body of
\* an error response (the body of a successful response is the stream).
NoResponse == [status |-> 0, body |-> ""]
Responses ==
  { [status |-> 200, body |-> ""],
    [status |-> 304, body |-> ""],
    [status |-> 401, body |-> "{\"error\":\"invalid key\"}"],
    [status |-> 500, body |-> "Internal Server Error"] }

\* requests.Response.ok: no 4xx or 5xx status.
response_ok(r) == ~(r.status >= 400 /\ r.status < 600)

\* check_api_key testing `api_key is None` in place of `not api_key`.
key_missing_none_only(key) == key = NoKey

\* if not api_key:
key_missing(key) == key = NoKey \/ key = ""

(***************************************************************************)
(* What the two ends of send_to_openai / send_to_anthropic print.          *)
(***************************************************************************)
\* The prologue without the call of print_payload.
prologue_without_payload(p) == << Out("stream_start", "Streaming Response") >>

\* print_payload(payload, title); print_stream_start()
prologue(p) ==
  << Out("payload", IF p = "openai" THEN "OpenAI Request Payload"
                    ELSE "Anthropic Request Payload"),
     Out("stream_start", "Streaming Response") >>

\* The prints after the loop: [exc, out], exc the exception "".join raises.
epilogue(acc) ==
  LET done == <<Out("stream_complete", "Stream complete.")>>
      text == str_join(acc)
  IN IF Len(acc) = 0 THEN [exc |-> "", out |-> done]
     ELSE IF text.exc # ""
       THEN [exc |-> text.exc, out |-> done \o <<Out("acc_header", "Accumulated Text Response")>>]
     ELSE [exc |-> "",
           out |-> done \o << Out("acc_header", "Accumulated Text Response"),
                              Out("acc_text", text.val.v),
                              Out("acc_footer", "") >>]

\* The connection of a response whose body was not read to its end, once
\* the function has returned and no name refers to the response: the code
\* does not close it, so it is closed when and if the runtime finalises it.
unreferenced(c) == IF c = "open" THEN {"open", "closed"} ELSE {c}

VARIABLES
  pc,               \* where the process is
  provider,         \* args.provider
  api_key,          \* the key of the selected provider, as load_api_keys gives it
  images_ok,        \* whether tires.jpeg and plot.png exist
  response,         \* the response of requests.post
  conn,             \* the HTTP connection: "none", "open" or "closed"
  received,         \* the lines response.iter_lines() has yielded, in order
  accumulated_text, \* the list accumulated_text
  stdout,           \* what was printed, in order
  requests_issued,  \* the calls of requests.post
  loop_end,         \* how the for loop ended: "", "eof", "break" or "raise"
  error,            \* the fatal condition met: "", or its name
  exit_status       \* the exit status of the process: -1 while it runs

vars == << pc, provider, api_key, images_ok, response, conn, received,
           accumulated_text, stdout, requests_issued, loop_end, error, exit_status >>

Init ==
  /\ pc = "main"
  /\ provider \in Providers
  /\ api_key \in ApiKeys
  /\ images_ok \in BOOLEAN
  /\ response = NoResponse
  /\ conn = "none"
  /\ received = << >>
  /\ accumulated_text = << >>
  /\ stdout = << >>
  /\ requests_issued = 0
  /\ loop_end = ""
  /\ error = ""
  /\ exit_status = -1

\* sys.exit(1), or an exception nothing catches
Die(why, printed) ==
  /\ pc' = "exit"
  /\ exit_status' = 1
  /\ error' = why
  /\ stdout' = stdout \o printed

\* main: check_api_key(provider, key)
CheckApiKey ==
  /\ pc = "main"
  /\ IF key_missing(api_key)
     THEN Die("missing_key", <<Out("error_key",
               IF provider = "openai" THEN "OPENAI_API_KEY" ELSE "ANTHROPIC_API_KEY")>>)
     ELSE /\ pc' = "scenarios"
          /\ UNCHANGED <<exit_status, error, stdout>>
  /\ UNCHANGED << provider, api_key, images_ok, response, conn, received,
                  accumulated_text, requests_issued, loop_end >>

\* main: scenarios = get_scenarios_*(), which loads the two image files
GetScenarios ==
  /\ pc = "scenarios"
  /\ IF ~images_ok
     THEN Die("missing_image", <<Out("error_image", "tires.jpeg")>>)
     ELSE /\ pc' = "send"
          /\ UNCHANGED <<exit_status, error, stdout>>
  /\ UNCHANGED << provider, api_key, images_ok, response, conn, received,
                  accumulated_text, requests_issued, loop_end >>

\* send_to_*: print_payload, print_stream_start, accumulated_text = []
Prologue ==
  /\ pc = "send"
  /\ stdout' = stdout \o prologue(provider)
  /\ accumulated_text' = << >>
  /\ pc' = "post"
  /\ UNCHANGED << provider, api_key, images_ok, response, conn, received,
                  requests_issued, loop_end, error, exit_status >>

\* response = requests.post(url, headers=headers, json=payload, stream=True)
Post ==
  /\ pc = "post"
  /\ requests_issued' = requests_issued + 1
  /\ \E r \in Responses :
       /\ response' = r
       /\ conn' = "open"
       /\ pc' = "status"
  /\ UNCHANGED << provider, api_key, images_ok, received, accumulated_text,
                  stdout, loop_end, error, exit_status >>

\* requests.post raises a RequestException (no connection, timeout, ...)
PostFails ==
  /\ pc = "post"
  /\ requests_issued' = requests_issued + 1
  /\ Die("transport", <<Out("error_request", "Error: connection failed")>>)
  /\ UNCHANGED << provider, api_key, images_ok, response, conn, received,
                  accumulated_text, loop_end >>

\* if not response.ok: print status and response.text; sys.exit(1)
CheckStatus ==
  /\ pc = "status"
  /\ IF response_ok(response)
     THEN /\ pc' = "loop"
          /\ UNCHANGED <<exit_status, error, stdout, conn>>
     ELSE /\ conn' = "closed"
          /\ \/ Die("http_error",
                    <<Out("error_http",
                          "Error " \o IntToStr(response.status) \o ": " \o response.body)>>)
             \/ Die("transport", <<Out("error_request", "Error: read failed")>>)
  /\ UNCHANGED << provider, api_key, images_ok, response, received,
                  accumulated_text, requests_issued, loop_end >>

\* The loop body applied to each line of the catalogue, computed once.
Lines == {Catalogue[n].line : n \in 1..Len(Catalogue)}
StepTable == [p \in Providers |-> [line \in Lines |-> handle_line(p, line)]]

\* One iteration of: for line in response.iter_lines()
ReadLine ==
  /\ pc = "loop"
  /\ Len(received) < MaxLines
  /\ \E n \in 1..Len(Catalogue) :
       LET step == StepTable[provider][Catalogue[n].line] IN
       /\ received' = Append(received, Catalogue[n])
       /\ accumulated_text' = append(accumulated_text, step.frags)
       /\ IF step.exc # ""
          THEN /\ Die(step.exc, step.out)
               /\ loop_end' = "raise"
          ELSE /\ stdout' = stdout \o step.out
               /\ pc' = IF step.brk THEN "complete" ELSE "loop"
               /\ loop_end' = IF step.brk THEN "break" ELSE ""
               /\ UNCHANGED <<exit_status, error>>
  /\ UNCHANGED << provider, api_key, images_ok, response, conn, requests_issued >>

\* response.iter_lines() is exhausted: the body was read to its end.
EndOfStream ==
  /\ pc = "loop"
  /\ pc' = "complete"
  /\ loop_end' = "eof"
  /\ conn' = "closed"
  /\ UNCHANGED << provider, api_key, images_ok, response, received,
                  accumulated_text, stdout, requests_issued, error, exit_status >>

\* response.iter_lines() raises a RequestException; except: print, sys.exit(1)
ReadFails ==
  /\ pc = "loop"
  /\ conn' = "closed"
  /\ loop_end' = "raise"
  /\ Die("transport", <<Out("error_request", "Error: connection broken")>>)
  /\ UNCHANGED << provider, api_key, images_ok, response, received,
                  accumulated_text, requests_issued >>

\* The prints after the loop, the return to main and the end of main.
Epilogue ==
  /\ pc = "complete"
  /\ LET e == epilogue(accumulated_text) IN
       IF e.exc # ""
       THEN /\ Die(e.exc, e.out)
            /\ UNCHANGED conn
       ELSE /\ stdout' = stdout \o e.out
            /\ pc' = "exit"
            /\ exit_status' = 0
            /\ conn' \in unreferenced(conn)
            /\ UNCHANGED error
  /\ UNCHANGED << provider, api_key, images_ok, response, received,
                  accumulated_text, requests_issued, loop_end >>

Next ==
  \/ CheckApiKey
  \/ GetScenarios
  \/ Prologue
  \/ Post
  \/ PostFails
  \/ CheckStatus
  \/ ReadLine
  \/ EndOfStream
  \/ ReadFails
  \/ Epilogue

Spec == Init /\ [][Next]_vars

(***************************************************************************)
(* What the claims speak of.                                               *)
(***************************************************************************)
Last(s) == s[Len(s)]
Kinds(out) == {out[n].kind : n \in 1..Len(out)}

RECURSIVE ConcatFrom(_, _)
ConcatFrom(strs, n) == IF n > Len(strs) THEN "" ELSE strs[n] \o ConcatFrom(strs, n + 1)
Concat(strs) == ConcatFrom(strs, 1)

\* The texts, in order, of the events of evs that satisfy Counts.
TextsOf(evs, Counts(_)) ==
  LET sel == SelectSeq(evs, Counts) IN [n \in 1..Len(sel) |-> sel[n].text]

\* The str values of a list of fragments.
Fragments(strs) == [n \in 1..Len(strs) |-> PyStr(strs[n])]

\* The accumulated text as the program prints it, when every fragment is a str.
AccumulatedString == Concat([n \in 1..Len(accumulated_text) |-> accumulated_text[n].v])

OpenAIContent(ev) == ev.shape = "openai" /\ ev.text # ""

\* C1: in send_to_openai, when the lines read are well-formed OpenAI events
\* followed by "data: [DONE]", the accumulated text at loop exit is the
\* concatenation, in arrival order, of the non-empty delta.content values of
\* the events before the sentinel, and nothing else.
C1_OpenAIAccumulatesContent ==
  ( /\ provider = "openai"
    /\ loop_end = "break"
    /\ \A n \in 1..(Len(received) - 1) : received[n].shape = "openai" )
  => /\ Last(received).shape = "done"
     /\ accumulated_text = Fragments(TextsOf(received, OpenAIContent))
     /\ AccumulatedString = Concat(TextsOf(received, OpenAIContent))

C1_Witness ==
  /\ provider = "openai"
  /\ loop_end = "break"
  /\ Len(received) = 3
  /\ received[1].shape = "openai" /\ received[1].text = "Hi"
  /\ received[2].shape = "openai" /\ received[2].text = " there"
  /\ received[3].line = "data: [DONE]"
  /\ AccumulatedString = "Hi there"

AnthropicText(ev) ==
  ev.shape = "anthropic" /\ ev.etype = "content_block_delta" /\ ev.dtype = "text_delta"

\* C2: in send_to_anthropic, when the lines read are well-formed Anthropic
\* events and the stream then closes, the accumulated text is the
\* concatenation, in arrival order, of delta.text of exactly the events with
\* type content_block_delta and delta.type text_delta.
C2_AnthropicAccumulatesTextDeltas ==
  ( /\ provider = "anthropic"
    /\ loop_end = "eof"
    /\ \A n \in 1..Len(received) : received[n].shape = "anthropic" )
  => /\ accumulated_text = Fragments(TextsOf(received, AnthropicText))
     /\ AccumulatedString = Concat(TextsOf(received, AnthropicText))

C2_Witness ==
  /\ provider = "anthropic"
  /\ loop_end = "eof"
  /\ Len(received) = 3
  /\ AnthropicText(received[1]) /\ received[1].text = "Hello"
  /\ received[2].shape = "anthropic" /\ received[2].dtype = "input_json_delta"
  /\ AnthropicText(received[3]) /\ received[3].text = "!"
  /\ AccumulatedString = "Hello!"

\* A data line whose payload is not valid JSON.  The [DONE] sentinel is such
\* a payload for send_to_anthropic, which does not test for it.
Malformed(p, ev) == ev.shape = "malformed" \/ (ev.shape = "done" /\ p = "anthropic")

Without(evs, Drop(_)) == SelectSeq(evs, LAMBDA ev : ~Drop(ev))

\* What the decode loop of provider p makes of the lines evs: the fragments
\* accumulated and the prints, up to the line that leaves the loop.
RECURSIVE Decoded(_, _, _, _, _)
Decoded(p, evs, n, acc, out) ==
  IF n > Len(evs) THEN [acc |-> acc, out |-> out]
  ELSE
    LET step == StepTable[p][evs[n].line] IN
    IF step.exc # "" \/ step.brk
    THEN [acc |-> append(acc, step.frags), out |-> out \o step.out]
    ELSE Decoded(p, evs, n + 1, append(acc, step.frags), out \o step.out)

\* The prints of the decode loop: what follows the two prints of the prologue
\* and comes before the loop's end.
LoopPrints ==
  LET body == SubSeq(stdout, Len(prologue(provider)) + 1, Len(stdout))
  IN SelectSeq(body, LAMBDA o : o.kind \in {"event", "done"})

\* C3: in both decoders a data line whose payload is not valid JSON changes
\* nothing and does not end the loop: it is not the line the loop ends at,
\* and the accumulated text and the events printed are those of the same
\* lines with the malformed ones removed.
C3_MalformedLinesAreSkipped ==
  (requests_issued > 0 /\ received # << >>) =>
    LET IsMalformed(ev) == Malformed(provider, ev)
        rest == Decoded(provider, Without(received, IsMalformed), 1, << >>, << >>)
    IN /\ accumulated_text = rest.acc
       /\ LoopPrints = rest.out
       /\ IsMalformed(Last(received)) =>
            /\ loop_end # "break"
            /\ loop_end = "raise" => error = "transport"

C3_Witness ==
  /\ Len(received) = 3
  /\ received[1].shape = provider
  /\ received[2].shape = "malformed"
  /\ received[3].shape = provider
  /\ Len(accumulated_text) = 2
  /\ pc = "loop"

\* C4: in send_to_openai the first "data: [DONE]" line ends the loop as a
\* normal completion: it is the last line read, nothing of it is accumulated,
\* and the run goes on to the prints after the loop as it does at the end of
\* the stream.
C4_DoneEndsOpenAILoop ==
  /\ \A n \in 1..Len(received) :
       (provider = "openai" /\ received[n].line = "data: [DONE]") =>
         /\ n = Len(received)
         /\ loop_end = "break"
         /\ pc \in {"complete", "exit"}
         /\ error \notin {"transport", "http_error", "JSONDecodeError"}
         /\ accumulated_text
              = Decoded("openai", SubSeq(received, 1, n - 1), 1, << >>, << >>).acc
  \* What follows the loop is the same after break as after the end of the
  \* stream: the prints of the epilogue, and the exit status they lead to.
  /\ (pc = "exit" /\ loop_end \in {"break", "eof"}) =>
       LET after == epilogue(accumulated_text) IN
       /\ Len(stdout) >= Len(after.out)
       /\ SubSeq(stdout, Len(stdout) - Len(after.out) + 1, Len(stdout)) = after.out
       /\ exit_status = IF after.exc = "" THEN 0 ELSE 1

C4_Witness ==
  /\ provider = "openai"
  /\ Len(received) = 2
  /\ received[1].text = "Hi"
  /\ received[2].line = "data: [DONE]"
  /\ pc = "exit"
  /\ exit_status = 0
  /\ "stream_complete" \in Kinds(stdout)

\* C5: for both vendors a response whose status is not 2xx is fatal before
\* streaming begins: no line is read, nothing is accumulated, no event is
\* printed, and the process exits non-zero having printed the status and the
\* body (or the transport error that kept the body from being read).
C5_StatusNot2xxIsFatal ==
  (response # NoResponse /\ response.status \notin 200..299) =>
    /\ pc \in {"status", "exit"}
    /\ received = << >>
    /\ accumulated_text = << >>
    /\ "event" \notin Kinds(stdout)
    /\ pc = "exit" =>
         /\ exit_status # 0
         /\ error \in {"http_error", "transport"}
         /\ error = "http_error" =>
              Last(stdout) = Out("error_http",
                                 "Error " \o IntToStr(response.status) \o ": " \o response.body)

\* C6: the connection of the request is released by the time the session
\* ends, on each of the paths end of stream, [DONE] sentinel, HTTP error
\* status and transport error: no such run ends with the connection open.
C6_ConnectionReleasedAtExit ==
  ( /\ pc = "exit"
    /\ \/ error = "" /\ response.status \in 200..299
       \/ error \in {"http_error", "transport"} )
  => conn # "open"

\* C7: the exit status is non-zero after a missing API key, an HTTP error
\* status or a transport failure, and zero when the loop ended at the end of
\* the stream or at [DONE].
C7_ExitStatus ==
  pc = "exit" =>
    /\ error \in {"missing_key", "http_error", "transport"} => exit_status # 0
    /\ (loop_end \in {"eof", "break"} /\ response.status \in 200..299) => exit_status = 0

\* C8: within one run the payload is printed first, before the request is
\* sent and before any stream event; the accumulated text is printed after
\* every event, followed only by its closing rule, only after the loop has
\* ended at the end of the stream or at [DONE], and never on a run that ends
\* in an HTTP or transport error.
C8_OutputOrder ==
  LET kind(n) == stdout[n].kind
      all == 1..Len(stdout)
  IN /\ requests_issued > 0 => (Len(stdout) >= 1 /\ kind(1) = "payload")
     /\ \A n \in all : kind(n) \in {"event", "done", "stream_complete", "acc_text"}
                         => (n > 1 /\ kind(1) = "payload")
     /\ \A n \in all : kind(n) = "payload" => n = 1
     /\ \A i, j \in all : (i < j /\ kind(i) = "acc_text") => kind(j) = "acc_footer"
     /\ \A n \in all : kind(n) = "acc_text" =>
          /\ loop_end \in {"eof", "break"}
          /\ stdout[n].text = AccumulatedString
          /\ \E m \in 1..(n - 1) : kind(m) = "stream_complete"
     /\ error \in {"http_error", "transport"} => "acc_text" \notin Kinds(stdout)

C8_Witness ==
  /\ pc = "exit"
  /\ Len(stdout) = 8
  /\ stdout[1].kind = "payload"
  /\ stdout[3].kind = "event" /\ stdout[4].kind = "event"
  /\ stdout[7].kind = "acc_text" /\ stdout[7].text = "Hello!"

\* C9: no retries.  At most one request is issued in a run; a run that met
\* an HTTP error status or a transport error has ended, with that one
\* request; a run whose API key is missing ends with no request issued.
C9_AtMostOneRequest ==
  /\ requests_issued <= 1
  /\ api_key \in {NoKey, ""} => requests_issued = 0
  /\ error \in {"http_error", "transport"} => (pc = "exit" /\ requests_issued = 1)
  /\ error = "missing_key" => (pc = "exit" /\ requests_issued = 0)
  /\ pc = "exit" => ~ENABLED Next

C9_Witness ==
  /\ pc = "exit"
  /\ error = "http_error"
  /\ response.status = 401
  /\ requests_issued = 1

\* C10: in both decoders a blank line, and a line that does not start with
\* "data: ", changes nothing: reading it prints nothing, leaves the
\* accumulated text as it is and leaves the loop running.
C10_NonDataLinesChangeNothing ==
  [][ ( /\ pc = "loop"
        /\ received' # received
        /\ Last(received').shape \in {"blank", "nondata"} )
      => /\ accumulated_text' = accumulated_text
         /\ stdout' = stdout
         /\ pc' = "loop"
         /\ loop_end' = loop_end
         /\ error' = error
         /\ exit_status' = exit_status
         /\ conn' = conn ]_vars

C10_Witness ==
  /\ pc = "loop"
  /\ Len(received) = 3
  /\ received[1].shape = "blank"
  /\ received[2].shape = provider
  /\ received[3].line = "data:{\"choices\":[{\"delta\":{\"content\":\"X\"}}]}"
  /\ Len(accumulated_text) = 1
  /\ Len(stdout) = 3

\* The lines whose payload, after "data: ", is a JSON text: the events of
\* either vendor and the payloads of another shape.
ParsesAsJson(ev) == ev.shape \in {"openai", "anthropic", "illshaped"}

\* The payload of each line of the catalogue as json.dumps(..., indent=2)
\* prints it once parsed, computed once.
PrettyTable ==
  [line \in Lines |-> json_dumps(json_loads(Slice(line, Len("data: ") + 1, Len(line))).val)]

EventsPrinted ==
  LET sel == SelectSeq(stdout, LAMBDA o : o.kind = "event")
  IN [n \in 1..Len(sel) |-> sel[n].text]

\* C11: in both decoders every data line whose payload parses as JSON is
\* printed exactly once, in arrival order, whether or not it adds text, and
\* before its text is appended: the events printed are the parsed payloads
\* of the lines read, also of a line whose extraction then raises, and no
\* fragment is accumulated without its event having been printed.
C11_EveryParsedPayloadIsPrinted ==
  LET parsed == SelectSeq(received, ParsesAsJson)
  IN /\ EventsPrinted = [n \in 1..Len(parsed) |-> PrettyTable[parsed[n].line]]
     /\ Len(accumulated_text) <= Len(EventsPrinted)

C11_Witness ==
  /\ provider = "anthropic"
  /\ pc = "loop"
  /\ Len(received) = 3
  /\ received[1].etype = "message_start"
  /\ received[2].shape = "malformed"
  /\ AnthropicText(received[3]) /\ received[3].text = "Hello"
  /\ Len(EventsPrinted) = 2
  /\ EventsPrinted[1] = "{\n  \"type\": \"message_start\"\n}"
  /\ Len(accumulated_text) = 1

\* C12: once streaming has begun the only abort is a transport error: no
\* line of text, a payload that is valid JSON of another shape included (a
\* number, a string, an array, a null choices[0] or delta), makes the loop
\* end by an exception; the decoder goes on to the end of the stream or to
\* [DONE].
C12_OnlyTransportErrorAborts ==
  ( /\ loop_end = "raise"
    /\ \A n \in 1..Len(received) : received[n].shape # "invalid_utf8" )
  => error = "transport"

\* C13: in send_to_anthropic "data: [DONE]" is no terminator: the line is
\* skipped as a malformed one is, it never ends the loop and is never
\* printed, the loop ends normally only at the end of the stream, and the
\* text_delta events that follow it are still printed and appended.
C13_DoneIsNoTerminatorForAnthropic ==
  provider = "anthropic" =>
    LET IsDone(ev) == ev.line = "data: [DONE]"
        rest == Decoded("anthropic", Without(received, IsDone), 1, << >>, << >>)
    IN /\ loop_end # "break"
       /\ "done" \notin Kinds(stdout)
       /\ pc = "complete" => loop_end = "eof"
       /\ (received # << >> /\ IsDone(Last(received))) =>
            \/ pc = "loop"
            \/ loop_end = "eof"
            \/ error = "transport"
       /\ accumulated_text = rest.acc
       /\ requests_issued > 0 => LoopPrints = rest.out
       /\ (\A n \in 1..Len(received) : received[n].shape \in {"anthropic", "done"}) =>
            accumulated_text = Fragments(TextsOf(received, AnthropicText))

C13_Witness ==
  /\ provider = "anthropic"
  /\ loop_end = "eof"
  /\ Len(received) = 3
  /\ AnthropicText(received[1]) /\ received[1].text = "Hello"
  /\ received[2].line = "data: [DONE]"
  /\ AnthropicText(received[3]) /\ received[3].text = "!"
  /\ AccumulatedString = "Hello!"
  /\ Len(EventsPrinted) = 2
====
